---- MODULE Spec2Model ----
(***************************************************************************)
(* A model of pension-checker: the Checker framework (checkers.py), the    *)
(* concrete rule checkers, the nil normaliser and tables of schema.py and  *)
(* the batch driver check_file / main of __main__.py.                      *)
(*                                                                         *)
(* Representation.                                                         *)
(*  - Money is an integer number of currency units; a percentage is an     *)
(*    integer number of hundredths of a percent (Decimal("8.33") is 833).  *)
(*  - A message is a record [tag, args, vals]: the fixed text of the       *)
(*    message is its tag, the formatted values are args (a sequence) and   *)
(*    vals (a set, for the joined salary sets).                            *)
(*  - A failure (an exception) of a rule is the fault flag of its result.  *)
(*  - A date string is [fmt, date, time]; fmt says which strptime format   *)
(*    it matches ("d" for %Y%m%d, "dt" for %Y%m%d%H%M%S, "bad" for none).  *)
(***************************************************************************)
EXTENDS Integers, Sequences, FiniteSets, TLC

(***************************************************************************)
(* schema.py                                                               *)
(***************************************************************************)
pitzuim == 1
tagmulim_oved == 2
tagmulim_maavid == 3
kh_oved == 8
kh_maavid == 9

SugHafrasha == {pitzuim, tagmulim_oved, tagmulim_maavid, kh_oved, kh_maavid}

\* The regulated bands, in hundredths of a percent, as <<min, max>>.
HAFRASHA_RANGES_PENSION ==
    (pitzuim :> <<600, 833>>) @@ (tagmulim_oved :> <<600, 700>>)
        @@ (tagmulim_maavid :> <<650, 750>>)

\* The order in which HAFRASHA_RANGES_PENSION.items() yields its keys.
RangesItems == <<pitzuim, tagmulim_oved, tagmulim_maavid>>

\* A decoded leaf: a number, or a mapping with the given set of keys.  A key
\* is a sequence of characters.
Num(n) == [kind |-> "num", val |-> n, keys |-> {}]
Dict(ks) == [kind |-> "dict", val |-> 0, keys |-> ks]

endswith(key, suffix) ==
    /\ Len(key) >= Len(suffix)
    /\ SubSeq(key, Len(key) - Len(suffix) + 1, Len(key)) = suffix

NilSuffix == <<"n", "i", "l">>

\* A mutation of fix_nil: every mapping is taken for the nil marker.
fix_nil_any_dict(element, default) ==
    IF element.kind = "dict" THEN default ELSE element

fix_nil(element, default) ==
    IF element.kind = "dict"
    THEN IF Cardinality(element.keys) = 1
         THEN LET key == CHOOSE k \in element.keys : TRUE
              IN  IF endswith(key, NilSuffix) THEN default ELSE element
         ELSE element
    ELSE element

DateStr(d) == [fmt |-> "d", date |-> d, time |-> 0]
DateTimeStr(d, t) == [fmt |-> "dt", date |-> d, time |-> t]
BadStr == [fmt |-> "bad", date |-> 0, time |-> 0]

\* strptime results: [fault, date, time].
parse_datetime(s) ==
    IF s.fmt = "dt" THEN [fault |-> FALSE, date |-> s.date, time |-> s.time]
    ELSE [fault |-> TRUE, date |-> 0, time |-> 0]

parse_date(s) ==
    IF s.fmt = "d" THEN [fault |-> FALSE, date |-> s.date, time |-> 0]
    ELSE [fault |-> TRUE, date |-> 0, time |-> 0]

(***************************************************************************)
(* checkers.py: the assertion primitives.  Each takes the accumulator      *)
(* self.problems and yields the accumulator after the call.                *)
(***************************************************************************)
\* A message: fixed text (tag) with the values formatted into it.
Msg(tag, args) == [tag |-> tag, args |-> args, vals |-> {}]
MsgSet(tag, args, vals) == [tag |-> tag, args |-> args, vals |-> vals]
\* f"{message} ({x} .. {y}": the message with two more values.
With(message, x, y) == [message EXCEPT !.args = @ \o <<x, y>>]

report(ps, message) == Append(ps, message)

assert_(ps, check, message) ==
    IF ~check THEN report(ps, message) ELSE ps

assert_eq(ps, left, right, message) ==
    IF left # right THEN report(ps, With(message, left, right)) ELSE ps

\* A mutation of assert_range: the upper bound is never looked at.
assert_range_no_upper(ps, min, value, max, message) ==
    IF value < min THEN report(ps, With(message, value, min)) ELSE ps

assert_range(ps, min, value, max, message) ==
    IF value < min THEN report(ps, With(message, value, min))
    ELSE IF value > max THEN report(ps, With(message, value, max))
    ELSE ps

assert_gte(ps, left, right, message) ==
    IF left < right THEN report(ps, With(message, left, right)) ELSE ps

assert_gt(ps, left, right, message) ==
    IF left <= right THEN report(ps, With(message, left, right)) ELSE ps

assert_lte(ps, left, right, message) ==
    IF left > right THEN report(ps, With(message, left, right)) ELSE ps

assert_lt(ps, left, right, message) ==
    IF left >= right THEN report(ps, With(message, left, right)) ELSE ps

\* The outcome of a rule: the accumulator it leaves, and whether it raised.
Ok(ps) == [problems |-> ps, fault |-> FALSE]
Raise(ps) == [problems |-> ps, fault |-> TRUE]

RECURSIVE SumSchum(_)
SumSchum(s) ==
    IF s = <<>> THEN 0 ELSE s[1].schum + SumSchum(Tail(s))

Salaries(s) == {s[i].sachar : i \in 1..Len(s)}

(***************************************************************************)
(* CheckLastHafkada.check_one                                              *)
(***************************************************************************)
CheckLastHafkada_check_one(ps, tree) ==
    LET last_total == tree.total
        last_perut == tree.perut
        p1 == assert_eq(ps, SumSchum(last_perut), last_total,
                        Msg("last_sum", <<>>))
        salaries == Salaries(last_perut)
    IN  Ok(assert_(p1, Cardinality(salaries) = 1,
                   MsgSet("last_salary", <<>>, salaries)))

(***************************************************************************)
(* CheckHafkadotYtd.check_one                                              *)
(***************************************************************************)
\* itertools.groupby over the entries sorted by CHODESH-SACHAR: one group per
\* month, in increasing order of the month.
RECURSIVE YtdGroups(_, _, _)
YtdGroups(ps, entries, months) ==
    IF months = {} THEN ps
    ELSE LET month == CHOOSE m \in months : \A n \in months : m <= n
             salaries == {entries[i].sachar :
                             i \in {j \in 1..Len(entries) : entries[j].chodesh = month}}
         IN  YtdGroups(assert_(ps, Cardinality(salaries) = 1,
                               MsgSet("ytd_salary", <<month>>, salaries)),
                       entries, months \ {month})

CheckHafkadotYtd_check_one(ps, tree) ==
    Ok(YtdGroups(ps, tree.ytd, {tree.ytd[i].chodesh : i \in 1..Len(tree.ytd)}))

(***************************************************************************)
(* CheckHafkadotYtdTotal.check_one                                         *)
(***************************************************************************)
\* sums[sug] after the loop over the entries; a defaultdict, so 0 for a
\* category without entries.
RECURSIVE SumsOf(_, _)
SumsOf(entries, sug) ==
    IF entries = <<>> THEN 0
    ELSE (IF entries[1].sug = sug THEN entries[1].schum ELSE 0)
            + SumsOf(Tail(entries), sug)

\* A mutation of the rule: the employer total is compared with the employee sum.
CheckHafkadotYtdTotal_wrong_sum(ps, tree) ==
    LET hafkadot_ytd == tree.ytd
        total == tree.shnatiyot
        p1 == assert_eq(ps, SumsOf(hafkadot_ytd, pitzuim), total.pitzuim,
                        Msg("ytd_total_pitzuim", <<>>))
        p2 == assert_eq(p1, SumsOf(hafkadot_ytd, tagmulim_oved), total.oved,
                        Msg("ytd_total_oved", <<>>))
        p3 == assert_eq(p2, SumsOf(hafkadot_ytd, tagmulim_oved), total.maavid,
                        Msg("ytd_total_maavid", <<>>))
    IN  Ok(p3)

CheckHafkadotYtdTotal_check_one(ps, tree) ==
    LET hafkadot_ytd == tree.ytd
        total == tree.shnatiyot
        p1 == assert_eq(ps, SumsOf(hafkadot_ytd, pitzuim), total.pitzuim,
                        Msg("ytd_total_pitzuim", <<>>))
        p2 == assert_eq(p1, SumsOf(hafkadot_ytd, tagmulim_oved), total.oved,
                        Msg("ytd_total_oved", <<>>))
        p3 == assert_eq(p2, SumsOf(hafkadot_ytd, tagmulim_maavid), total.maavid,
                        Msg("ytd_total_maavid", <<>>))
    IN  Ok(p3)

(***************************************************************************)
(* CheckHafrashotSize.check_one                                            *)
(***************************************************************************)
\* The first loop: state is <<accumulator, hafrashot_percentages>>, the
\* dictionary being a function from the categories seen to the percentage.
RECURSIVE HafrashotLoop(_, _, _)
HafrashotLoop(ps, percentages, hafrashot) ==
    IF hafrashot = <<>> THEN <<ps, percentages>>
    ELSE LET p == hafrashot[1]
             sug == p.sug
             p1 == assert_(ps, sug \notin DOMAIN percentages,
                           Msg("size_twice", <<sug>>))
             d1 == [s \in (DOMAIN percentages) \cup {sug} |->
                        IF s = sug THEN p.achuz ELSE percentages[s]]
         IN  HafrashotLoop(p1, d1, Tail(hafrashot))

RECURSIVE RangesLoop(_, _, _)
RangesLoop(ps, percentages, items) ==
    IF items = <<>> THEN ps
    ELSE LET sug == items[1]
             sug_min == HAFRASHA_RANGES_PENSION[sug][1]
             sug_max == HAFRASHA_RANGES_PENSION[sug][2]
         IN  IF sug \notin DOMAIN percentages
             THEN RangesLoop(report(ps, Msg("size_missing", <<sug>>)),
                             percentages, Tail(items))
             ELSE RangesLoop(assert_range(ps, sug_min, percentages[sug], sug_max,
                                          Msg("size_range", <<sug>>)),
                             percentages, Tail(items))

\* A mutation of the rule: a second declaration of a category goes unreported.
RECURSIVE HafrashotLoopSilent(_, _, _)
HafrashotLoopSilent(ps, percentages, hafrashot) ==
    IF hafrashot = <<>> THEN <<ps, percentages>>
    ELSE LET p == hafrashot[1]
             d1 == [s \in (DOMAIN percentages) \cup {p.sug} |->
                        IF s = p.sug THEN p.achuz ELSE percentages[s]]
         IN  HafrashotLoopSilent(ps, d1, Tail(hafrashot))

CheckHafrashotSize_no_twice(ps, tree) ==
    LET first == HafrashotLoopSilent(ps, <<>>, tree.hafrashot)
    IN  Ok(RangesLoop(first[1], first[2], RangesItems))

CheckHafrashotSize_check_one(ps, tree) ==
    LET first == HafrashotLoop(ps, <<>>, tree.hafrashot)
    IN  Ok(RangesLoop(first[1], first[2], RangesItems))

(***************************************************************************)
(* CheckHafrashotSizeInHafkadotYtd.check_one                               *)
(***************************************************************************)
\* percentage = hafkada_schum / salary * Decimal(100) raises on salary = 0.
\* For salary > 0 the exact comparison of the quotient with a band limit is
\* the comparison of the two sides multiplied by the salary, in hundredths of
\* a percent: 10000 * schum against limit * salary.
\* A mutation of the rule: the health-fund categories are not skipped.
CheckHafrashotSizeInHafkadotYtd_no_skip(ps, tree) ==
    LET sug == tree.sug
        band == IF sug \in DOMAIN HAFRASHA_RANGES_PENSION
                THEN HAFRASHA_RANGES_PENSION[sug] ELSE <<0, 10000>>
        salary == tree.sachar
        hafkada_schum == tree.schum
    IN  IF salary = 0 THEN Raise(ps)
        ELSE Ok(assert_range(ps, band[1] * salary, 10000 * hafkada_schum,
                             band[2] * salary,
                             Msg("ytd_size_range", <<sug>>)))

CheckHafrashotSizeInHafkadotYtd_check_one(ps, tree) ==
    LET sug == tree.sug
    IN  IF sug \notin DOMAIN HAFRASHA_RANGES_PENSION THEN Ok(ps)
        ELSE LET sug_min == HAFRASHA_RANGES_PENSION[sug][1]
                 sug_max == HAFRASHA_RANGES_PENSION[sug][2]
                 salary == tree.sachar
                 hafkada_schum == tree.schum
             IN  IF salary = 0 THEN Raise(ps)
                 ELSE Ok(assert_range(ps, sug_min * salary, 10000 * hafkada_schum,
                                      sug_max * salary,
                                      Msg("ytd_size_range", <<sug>>)))

(***************************************************************************)
(* CheckTotalHafkadaParts.check_one                                        *)
(***************************************************************************)
\* [..][0] raises on an empty list; the subtraction raises on a mapping that
\* fix_nil left as it was.
CheckTotalHafkadaParts_check_one(ps, tree) ==
    IF tree.achrona = <<>> THEN Raise(ps)
    ELSE LET last_hafkada == tree.achrona[1]
             bruto == last_hafkada.total
             neto == last_hafkada.total_achrona
             expenses == tree.hotzaot
             insurance_premium == fix_nil(expenses.bituah, Num(0))
             dmei_nihul_hafkada == fix_nil(expenses.nihul, Num(0))
         IN  IF insurance_premium.kind # "num" \/ dmei_nihul_hafkada.kind # "num"
             THEN Raise(ps)
             ELSE Ok(assert_(ps,
                             neto = bruto - insurance_premium.val
                                        - dmei_nihul_hafkada.val,
                             Msg("parts", <<neto, bruto, insurance_premium.val,
                                            dmei_nihul_hafkada.val>>)))

(***************************************************************************)
(* CheckNechonutDate.check_one and CheckJoinDate.check_one                 *)
(***************************************************************************)
CheckNechonutDate_check_one(ps, tree, hdrs) ==
    LET nechonut_date == parse_date(tree.nechonut)
    IN  IF nechonut_date.fault THEN Raise(ps)
        ELSE Ok(assert_lte(ps, nechonut_date.date, hdrs.bitzua.date,
                           Msg("nechonut_after_bitzua", <<>>)))

CheckJoinDate_check_one(ps, tree, doc) ==
    IF ~doc.customer.present THEN Raise(ps)
    ELSE LET birthday == parse_date(doc.customer.leyda)
             join_day == parse_date(tree.hitztarfut)
         IN  IF birthday.fault \/ join_day.fault THEN Raise(ps)
             ELSE Ok(assert_gt(ps, join_day.date, birthday.date,
                               Msg("join_before_birth", <<>>)))

(***************************************************************************)
(* The decoded document and its path accessor.                             *)
(*   doc      = [loadable, header, mutzar, customer, polisot]              *)
(*   header   = [present, sug, bitzua]         (KoteretKovetz)             *)
(*   customer = [present, leyda]               (YeshutLakoach)             *)
(*   polisa   = [nechonut, hitztarfut, taktziv] (HeshbonOPolisa)           *)
(*   takziv   = [ytd, shnatiyot, hafrashot, achrona, hotzaot]              *)
(* mutzar says whether the Mutzar group, above every anchor, is there.     *)
(***************************************************************************)
RECURSIVE Flatten(_)
Flatten(ss) ==
    IF ss = <<>> THEN <<>> ELSE ss[1] \o Flatten(Tail(ss))

Found(v) == [fault |-> FALSE, value |-> v]
NotFound == [fault |-> TRUE, value |-> <<>>]

Taktzivim(doc) ==
    Flatten([i \in 1..Len(doc.polisot) |-> doc.polisot[i].taktziv])

\* Checker.get_path, for an anchor: the records under the path, in document
\* order, or a failure when the group above them is absent.  The decoder
\* (xmlschema) is taken to yield a sequence for a path under a repeated
\* group, empty when nothing matches.
get_path(doc, path) ==
    IF ~doc.mutzar THEN NotFound
    ELSE CASE path = "HeshbonOPolisa" -> Found(doc.polisot)
           [] path = "PirteiTaktziv" -> Found(Taktzivim(doc))
           [] path = "PerutHafkadotMetchilatShana" ->
                  Found(Flatten([i \in 1..Len(Taktzivim(doc)) |->
                                    Taktzivim(doc)[i].ytd]))
           [] path = "PerutPirteiHafkadaAchrona" ->
                  Found(Flatten([i \in 1..Len(Taktzivim(doc)) |->
                                    Taktzivim(doc)[i].achrona]))

\* Checker.__subclasses__(): the concrete checkers in definition order.
Subclasses ==
    << "CheckLastHafkada", "CheckHafkadotYtd", "CheckHafkadotYtdTotal",
       "CheckHafrashotSize", "CheckHafrashotSizeInHafkadotYtd",
       "CheckTotalHafkadaParts", "CheckNechonutDate", "CheckJoinDate" >>

root_path(cls) ==
    CASE cls = "CheckLastHafkada" -> "PerutPirteiHafkadaAchrona"
      [] cls = "CheckHafkadotYtd" -> "PirteiTaktziv"
      [] cls = "CheckHafkadotYtdTotal" -> "PirteiTaktziv"
      [] cls = "CheckHafrashotSize" -> "PirteiTaktziv"
      [] cls = "CheckHafrashotSizeInHafkadotYtd" -> "PerutHafkadotMetchilatShana"
      [] cls = "CheckTotalHafkadaParts" -> "PirteiTaktziv"
      [] cls = "CheckNechonutDate" -> "HeshbonOPolisa"
      [] cls = "CheckJoinDate" -> "HeshbonOPolisa"

\* checker.check_one(tree) of the checker of class cls.
check_one(cls, ps, tree, hdrs, doc) ==
    CASE cls = "CheckLastHafkada" -> CheckLastHafkada_check_one(ps, tree)
      [] cls = "CheckHafkadotYtd" -> CheckHafkadotYtd_check_one(ps, tree)
      [] cls = "CheckHafkadotYtdTotal" -> CheckHafkadotYtdTotal_check_one(ps, tree)
      [] cls = "CheckHafrashotSize" -> CheckHafrashotSize_check_one(ps, tree)
      [] cls = "CheckHafrashotSizeInHafkadotYtd" ->
             CheckHafrashotSizeInHafkadotYtd_check_one(ps, tree)
      [] cls = "CheckTotalHafkadaParts" -> CheckTotalHafkadaParts_check_one(ps, tree)
      [] cls = "CheckNechonutDate" -> CheckNechonutDate_check_one(ps, tree, hdrs)
      [] cls = "CheckJoinDate" -> CheckJoinDate_check_one(ps, tree, doc)

NoHeaders == [set |-> FALSE, sug |-> 0,
              bitzua |-> [fault |-> FALSE, date |-> 0, time |-> 0]]

\* results.extend((self.root_path, idx, p) for p in self.problems)
Tuples(path, i, ps) ==
    [k \in 1..Len(ps) |-> [path |-> path, idx |-> i, msg |-> ps[k]]]

\* A mutation of the drain: the tuple carries the one-based position.
drain_one_based(rs, path, i, ps) == rs \o Tuples(path, i + 1, ps)

drain(rs, path, i, ps) == rs \o Tuples(path, i, ps)

\* A mutation of the clear: the accumulator keeps its messages.
clear_kept(ps) == ps

\* self.problems.clear()
clear(ps) == <<>>

\* A mutation of check's results list: the list of the previous check lives on.
check_results_shared(prev) == prev

\* results: List[tuple] = [] at the start of check.
check_results_new(prev) == <<>>

\* A mutation of all_checks' results list: the list of the previous run lives on.
all_checks_results_shared(prev) == prev

\* results: List[tuple] = [] at the start of all_checks.
all_checks_results_new(prev) == <<>>

\* A mutation of the concatenation: a checker's results go to the front.
extend_front(rs, checker_rs) == checker_rs \o rs

\* results.extend(checker_results)
extend(rs, checker_rs) == rs \o checker_rs

(***************************************************************************)
(* The documents of the batch.                                             *)
(***************************************************************************)
Entry(sug, schum, sachar, chodesh) ==
    [sug |-> sug, schum |-> schum, sachar |-> sachar, chodesh |-> chodesh]
Hafrasha(sug, achuz) == [sug |-> sug, achuz |-> achuz]
Perut(schum, sachar) == [schum |-> schum, sachar |-> sachar]
Achrona(total, neto, perut) ==
    [total |-> total, total_achrona |-> neto, perut |-> perut]
Totals(p, o, m) == [pitzuim |-> p, oved |-> o, maavid |-> m]
Hotzaot(b, n) == [bituah |-> b, nihul |-> n]
Takziv(ytd, shnatiyot, hafrashot, achrona, hotzaot) ==
    [ytd |-> ytd, shnatiyot |-> shnatiyot, hafrashot |-> hafrashot,
     achrona |-> achrona, hotzaot |-> hotzaot]
Polisa(nechonut, hitztarfut, taktziv) ==
    [nechonut |-> nechonut, hitztarfut |-> hitztarfut, taktziv |-> taktziv]
Document(loadable, header, mutzar, customer, polisot) ==
    [loadable |-> loadable, header |-> header, mutzar |-> mutzar,
     customer |-> customer, polisot |-> polisot]

NilKey == <<"@", "x", "s", "i", ":", "n", "i", "l">>
NilMarker == Dict({NilKey})

GoodHafrashot ==
    << Hafrasha(pitzuim, 700), Hafrasha(tagmulim_oved, 650),
       Hafrasha(tagmulim_maavid, 700) >>

\* A budget block no rule objects to.
TakzivClean ==
    Takziv(<< Entry(pitzuim, 7, 100, 1), Entry(tagmulim_oved, 6, 100, 1),
              Entry(tagmulim_maavid, 7, 100, 1) >>,
           Totals(7, 6, 7), GoodHafrashot,
           << Achrona(20, 17, << Perut(13, 100), Perut(7, 100) >>) >>,
           Hotzaot(Num(2), NilMarker))

\* A budget block most rules object to, some of them more than once.
TakzivBad ==
    Takziv(<< Entry(pitzuim, 9, 100, 1), Entry(tagmulim_oved, 6, 90, 1),
              Entry(tagmulim_maavid, 7, 100, 2), Entry(tagmulim_maavid, 1, 80, 2) >>,
           Totals(7, 5, 7),
           << Hafrasha(pitzuim, 900), Hafrasha(pitzuim, 900),
              Hafrasha(tagmulim_oved, 500) >>,
           << Achrona(20, 19, << Perut(13, 100), Perut(6, 90) >>),
              Achrona(5, 5, <<>>) >>,
           Hotzaot(Num(2), Num(1)))

\* A budget block with a year-to-date entry of a regulated category and a
\* salary of zero, after an entry the percentage rule objects to.
TakzivZero ==
    Takziv(<< Entry(pitzuim, 9, 100, 1), Entry(tagmulim_oved, 6, 0, 2) >>,
           Totals(9, 6, 0), GoodHafrashot,
           << Achrona(20, 17, << Perut(20, 100) >>) >>,
           Hotzaot(Num(2), Num(1)))

\* A budget block whose only entry with a salary of zero is a health-fund one.
TakzivKh ==
    Takziv(<< Entry(kh_oved, 5, 0, 1), Entry(pitzuim, 9, 100, 2),
              Entry(kh_maavid, 5, 0, 3) >>,
           Totals(9, 0, 0), GoodHafrashot,
           << Achrona(20, 17, << Perut(20, 100) >>) >>,
           Hotzaot(NilMarker, Num(3)))

Header == [present |-> TRUE, sug |-> 1, bitzua |-> DateTimeStr(5, 1)]
Customer == [present |-> TRUE, leyda |-> DateStr(2)]
NoCustomer == [present |-> FALSE, leyda |-> BadStr]

DocClean ==
    Document(TRUE, Header, TRUE, Customer,
             << Polisa(DateStr(5), DateStr(3), << TakzivClean >>) >>)
DocBad ==
    Document(TRUE, Header, TRUE, Customer,
             << Polisa(DateStr(4), DateStr(3), << TakzivClean, TakzivBad >>),
                Polisa(DateStr(6), DateStr(2), << TakzivBad >>) >>)
DocZero ==
    Document(TRUE, Header, TRUE, Customer,
             << Polisa(DateStr(4), DateStr(3), << TakzivBad, TakzivZero >>) >>)
DocKh ==
    Document(TRUE, Header, TRUE, Customer,
             << Polisa(DateStr(6), DateStr(3), << TakzivKh >>) >>)
DocNoHeader ==
    Document(TRUE, [present |-> FALSE, sug |-> 0, bitzua |-> BadStr], TRUE,
             Customer, << Polisa(DateStr(6), DateStr(3), << TakzivBad >>) >>)
DocBadStamp ==
    Document(TRUE, [present |-> TRUE, sug |-> 1, bitzua |-> DateStr(5)], TRUE,
             Customer, << Polisa(DateStr(6), DateStr(3), << TakzivBad >>) >>)
DocNoMutzar ==
    Document(TRUE, Header, FALSE, Customer, <<>>)
DocNoPolisa ==
    Document(TRUE, Header, TRUE, Customer, <<>>)
DocNoTakziv ==
    Document(TRUE, Header, TRUE, Customer,
             << Polisa(DateStr(6), DateStr(2), <<>>) >>)
DocNoCustomer ==
    Document(TRUE, Header, TRUE, NoCustomer,
             << Polisa(DateStr(6), DateStr(3), << TakzivBad >>) >>)
DocBadDate ==
    Document(TRUE, Header, TRUE, Customer,
             << Polisa(DateStr(6), DateStr(3), << TakzivBad >>),
                Polisa(BadStr, DateStr(3), <<>>) >>)
DocUnloadable ==
    Document(FALSE, Header, TRUE, Customer, <<>>)

Documents ==
    { DocClean, DocBad, DocZero, DocKh, DocNoHeader, DocBadStamp, DocNoMutzar,
      DocNoPolisa, DocNoTakziv, DocNoCustomer, DocBadDate, DocUnloadable }

\* A file of the command line: its suffix and what it decodes to.
Files ==
    [xml : {TRUE}, doc : Documents] \cup [xml : {FALSE}, doc : {DocClean}]

\* The number of files given on the command line.
MaxFiles == 2

(***************************************************************************)
(* State.                                                                  *)
(*   files             the files main has handed to check_file so far      *)
(*   pc                where the batch is: "main", "subclass" (the loop of *)
(*                     all_checks), "check" (a fresh checker, check not    *)
(*                     yet begun), "loop" (the loop of check), "raise" (an *)
(*                     exception on its way to check_file), "exit"         *)
(*   document          all_checks: the document of the current run         *)
(*   results           all_checks: results                                 *)
(*   subclass          all_checks: position in Subclasses                  *)
(*   problems, headers the current checker's self.problems, self.headers   *)
(*   checker_results   check: results                                      *)
(*   trees, idx        check: the enumerated records, the next idx         *)
(*   calls             how often check has called check_one (history)      *)
(*   written           per file handed over: the report written, or the    *)
(*                     failure printed                                     *)
(*   tree, out, aux    the input, result and history of a rule or an       *)
(*                     assertion primitive applied on its own              *)
(***************************************************************************)
VARIABLES files, pc, document, results, subclass, problems, headers,
          checker_results, trees, idx, calls, written, tree, out, aux

batchVars == <<files, pc, document, results, subclass, problems, headers,
               checker_results, trees, idx, calls, written>>
unitVars == <<tree, out, aux>>
vars == <<files, pc, document, results, subclass, problems, headers,
          checker_results, trees, idx, calls, written, tree, out, aux>>

NoOut == [done |-> FALSE, problems |-> <<>>, fault |-> FALSE]
NoAux == [op |-> "none", a |-> 0, b |-> 0, c |-> 0, n |-> 0]

BatchIdle ==
    /\ files = <<>>
    /\ pc = "idle"
    /\ document = DocUnloadable
    /\ results = <<>>
    /\ subclass = 0
    /\ problems = <<>>
    /\ headers = NoHeaders
    /\ checker_results = <<>>
    /\ trees = <<>>
    /\ idx = 0
    /\ calls = 0
    /\ written = <<>>

UnitIdle ==
    /\ tree = NoAux
    /\ out = NoOut
    /\ aux = NoAux

Init ==
    /\ files = <<>>
    /\ pc = "main"
    /\ document = DocUnloadable
    /\ results = <<>>
    /\ subclass = 0
    /\ problems = <<>>
    /\ headers = NoHeaders
    /\ checker_results = <<>>
    /\ trees = <<>>
    /\ idx = 0
    /\ calls = 0
    /\ written = <<>>
    /\ UnitIdle

Report(rows) == [status |-> "report", rows |-> rows]
Failed == [status |-> "failed", rows |-> <<>>]

\* main hands the next file to check_file, which leaves the batch on a suffix
\* other than .xml and otherwise calls all_checks: the document is built, which
\* raises for a file that cannot be decoded, and results starts empty.
CheckFile ==
    /\ pc = "main"
    /\ Len(files) < MaxFiles
    /\ \E file \in Files :
        /\ files' = Append(files, file)
        /\ IF ~file.xml
           THEN /\ pc' = "exit"
                /\ UNCHANGED <<document, results, subclass>>
           ELSE /\ document' = file.doc
                /\ results' = all_checks_results_new(results)
                /\ subclass' = 1
                /\ pc' = IF file.doc.loadable THEN "subclass" ELSE "raise"
    /\ UNCHANGED <<problems, headers, checker_results, trees, idx, calls,
                   written, unitVars>>

\* checker = subclass(document): Checker.__init__.
NewChecker ==
    /\ pc = "subclass"
    /\ subclass <= Len(Subclasses)
    /\ problems' = <<>>
    /\ headers' = NoHeaders
    /\ pc' = "check"
    /\ UNCHANGED <<files, document, results, subclass, checker_results, trees,
                   idx, calls, written, unitVars>>

\* check, up to its loop: the header is resolved and its timestamp decoded,
\* then the anchor path is resolved.
CheckBegin ==
    /\ pc = "check"
    /\ checker_results' = check_results_new(checker_results)
    /\ calls' = 0
    /\ idx' = 0
    /\ LET stamp == parse_datetime(document.header.bitzua)
           anchor == get_path(document, root_path(Subclasses[subclass]))
       IN  IF ~document.header.present
           THEN /\ pc' = "raise"
                /\ UNCHANGED <<headers, trees>>
           ELSE IF stamp.fault
           THEN /\ pc' = "raise"
                /\ headers' = [set |-> TRUE, sug |-> document.header.sug,
                               bitzua |-> NoHeaders.bitzua]
                /\ UNCHANGED trees
           ELSE /\ headers' = [set |-> TRUE, sug |-> document.header.sug,
                               bitzua |-> stamp]
                /\ IF anchor.fault
                   THEN pc' = "raise" /\ UNCHANGED trees
                   ELSE pc' = "loop" /\ trees' = anchor.value
    /\ UNCHANGED <<files, document, results, subclass, problems, written,
                   unitVars>>

\* One turn of check's loop: check_one, then the accumulator is drained into
\* the results under idx and cleared.  An exception of check_one leaves the
\* accumulator as it is.
CheckOne ==
    /\ pc = "loop"
    /\ idx < Len(trees)
    /\ calls' = calls + 1
    /\ LET r == check_one(Subclasses[subclass], problems, trees[idx + 1],
                          headers, document)
       IN  IF r.fault
           THEN /\ problems' = r.problems
                /\ pc' = "raise"
                /\ UNCHANGED <<checker_results, idx>>
           ELSE /\ checker_results' =
                       drain(checker_results, root_path(Subclasses[subclass]),
                             idx, r.problems)
                /\ problems' = clear(r.problems)
                /\ idx' = idx + 1
                /\ pc' = "loop"
    /\ UNCHANGED <<files, document, results, subclass, headers, trees, written,
                   unitVars>>

\* check returns its results; all_checks appends them and goes on to the next
\* subclass.
CheckReturn ==
    /\ pc = "loop"
    /\ idx = Len(trees)
    /\ results' = extend(results, checker_results)
    /\ subclass' = subclass + 1
    /\ pc' = "subclass"
    /\ UNCHANGED <<files, document, problems, headers, checker_results, trees,
                   idx, calls, written, unitVars>>

\* all_checks returns; check_file writes the report.
WriteReport ==
    /\ pc = "subclass"
    /\ subclass > Len(Subclasses)
    /\ written' = Append(written, Report(results))
    /\ pc' = "main"
    /\ UNCHANGED <<files, document, results, subclass, problems, headers,
                   checker_results, trees, idx, calls, unitVars>>

\* A mutation of the except clause: what was collected is written.
on_exception_partial(rs) == Report(rs)

\* The except clause of check_file: the failure is printed, nothing is written.
on_exception(rs) == Failed

Except ==
    /\ pc = "raise"
    /\ written' = Append(written, on_exception(results))
    /\ pc' = "main"
    /\ UNCHANGED <<files, document, results, subclass, problems, headers,
                   checker_results, trees, idx, calls, unitVars>>

Next ==
    \/ CheckFile
    \/ NewChecker
    \/ CheckBegin
    \/ CheckOne
    \/ CheckReturn
    \/ WriteReport
    \/ Except

Spec == Init /\ [][Next]_vars

(***************************************************************************)
(* What a run is expected to produce, stated from the document alone.      *)
(***************************************************************************)
\* The messages one record gets from the rule of cls, started on an empty
\* accumulator.
RecordMessages(cls, rec, doc) ==
    check_one(cls, <<>>, rec,
              [set |-> TRUE, sug |-> doc.header.sug,
               bitzua |-> parse_datetime(doc.header.bitzua)], doc).problems

\* The tuples of the first n records of recs, record after record, each
\* under its zero-based position.
RECURSIVE RowsUpTo(_, _, _, _)
RowsUpTo(cls, recs, n, doc) ==
    IF n = 0 THEN <<>>
    ELSE RowsUpTo(cls, recs, n - 1, doc)
            \o Tuples(root_path(cls), n - 1, RecordMessages(cls, recs[n], doc))

CheckRows(cls, doc) ==
    LET recs == get_path(doc, root_path(cls)).value
    IN  RowsUpTo(cls, recs, Len(recs), doc)

\* The tuples of the first n registered checkers, checker after checker.
RECURSIVE RowsOfCheckers(_, _)
RowsOfCheckers(n, doc) ==
    IF n = 0 THEN <<>>
    ELSE RowsOfCheckers(n - 1, doc) \o CheckRows(Subclasses[n], doc)

\* The checker a message text belongs to, as its position in Subclasses.
TagOwner(tag) ==
    CASE tag \in {"last_sum", "last_salary"} -> 1
      [] tag = "ytd_salary" -> 2
      [] tag \in {"ytd_total_pitzuim", "ytd_total_oved", "ytd_total_maavid"} -> 3
      [] tag \in {"size_twice", "size_missing", "size_range"} -> 4
      [] tag = "ytd_size_range" -> 5
      [] tag = "parts" -> 6
      [] tag = "nechonut_after_bitzua" -> 7
      [] tag = "join_before_birth" -> 8

Banded(sug) == sug \in {pitzuim, tagmulim_oved, tagmulim_maavid}

IsNilMarker(e) ==
    /\ e.kind = "dict"
    /\ Cardinality(e.keys) = 1
    /\ \A k \in e.keys :
          Len(k) >= 3 /\ k[Len(k) - 2] = "n" /\ k[Len(k) - 1] = "i" /\ k[Len(k)] = "l"

\* The document has a year-to-date entry of a regulated category with a
\* salary of zero.
HasZeroSalary(doc) ==
    \E i \in 1..Len(Taktzivim(doc)) :
        \E j \in 1..Len(Taktzivim(doc)[i].ytd) :
            /\ Banded(Taktzivim(doc)[i].ytd[j].sug)
            /\ Taktzivim(doc)[i].ytd[j].sachar = 0

\* Some header, anchor or value of the document cannot be resolved or decoded,
\* or a rule divides by a salary of zero.
DocFails(doc) ==
    \/ ~doc.loadable
    \/ ~doc.header.present
    \/ doc.header.bitzua.fmt # "dt"
    \/ ~doc.mutzar
    \/ HasZeroSalary(doc)
    \/ \E i \in 1..Len(Taktzivim(doc)) :
          \/ Taktzivim(doc)[i].achrona = <<>>
          \/ \E e \in {Taktzivim(doc)[i].hotzaot.bituah,
                       Taktzivim(doc)[i].hotzaot.nihul} :
                e.kind = "dict" /\ ~IsNilMarker(e)
    \/ \E i \in 1..Len(doc.polisot) :
          \/ doc.polisot[i].nechonut.fmt # "d"
          \/ doc.polisot[i].hitztarfut.fmt # "d"
          \/ ~doc.customer.present
          \/ doc.customer.leyda.fmt # "d"

Cls == Subclasses[subclass]

(***************************************************************************)
(* C1.  In Checker.check every emitted tuple carries the checker's own     *)
(* root_path and the zero-based index of exactly the record whose          *)
(* check_one call appended its message: the results so far are, record     *)
(* after record, the messages of that record alone under its index.  The   *)
(* accumulator self.problems is empty before every check_one call and      *)
(* after check returns.                                                    *)
(***************************************************************************)
C1_TuplesCarryOwnIndex ==
    /\ pc \in {"check", "loop", "subclass"} => problems = <<>>
    /\ pc = "loop" =>
          /\ checker_results = RowsUpTo(Cls, trees, idx, document)
          /\ \A k \in 1..Len(checker_results) :
                /\ checker_results[k].path = root_path(Cls)
                /\ checker_results[k].idx \in 0..(idx - 1)
                /\ \E m \in 1..Len(RecordMessages(Cls,
                                     trees[checker_results[k].idx + 1], document)) :
                      RecordMessages(Cls, trees[checker_results[k].idx + 1],
                                     document)[m] = checker_results[k].msg

\* Two records of one check have both yielded messages, the second several.
C1_Witness ==
    /\ pc = "loop"
    /\ idx >= 2
    /\ \E a, b \in 1..Len(checker_results) :
          /\ a < b
          /\ checker_results[a].idx = 0
          /\ checker_results[b].idx = 1
          /\ b < Len(checker_results)
          /\ checker_results[b + 1].idx = 1

(***************************************************************************)
(* C2.  The result list of all_checks is the concatenation of the          *)
(* checkers' result lists in registration order; within one checker the    *)
(* record indices never decrease, and no Problem of a later-registered     *)
(* checker precedes one of an earlier-registered checker.                  *)
(***************************************************************************)
C2_RegistrationOrder ==
    pc \in {"subclass", "check", "loop"} =>
        /\ results = RowsOfCheckers(subclass - 1, document)
        /\ \A a, b \in 1..Len(results) :
              a < b =>
                 /\ TagOwner(results[a].msg.tag) <= TagOwner(results[b].msg.tag)
                 /\ TagOwner(results[a].msg.tag) = TagOwner(results[b].msg.tag)
                       => results[a].idx <= results[b].idx

\* All checkers have run and at least three of them have contributed, one of
\* them for two records.
C2_Witness ==
    /\ pc = "subclass"
    /\ subclass > Len(Subclasses)
    /\ Cardinality({TagOwner(results[k].msg.tag) : k \in 1..Len(results)}) >= 3
    /\ \E a, b \in 1..Len(results) :
          /\ TagOwner(results[a].msg.tag) = TagOwner(results[b].msg.tag)
          /\ results[a].idx < results[b].idx

(***************************************************************************)
(* C3.  A document whose header, anchor path or some value cannot be       *)
(* resolved or decoded gets no report at all, whatever the checkers before *)
(* the failure had collected, and every other document gets its report;    *)
(* the batch goes on with the next file: it is left only for a file whose  *)
(* suffix is not .xml, and every file handed over ends with a report or a  *)
(* printed failure.                                                        *)
(***************************************************************************)
C3_FailureAbandonsDocumentOnly ==
    /\ Len(written) <= Len(files)
    /\ \A k \in 1..Len(written) :
          /\ files[k].xml
          /\ DocFails(files[k].doc) => written[k] = Failed
          /\ ~DocFails(files[k].doc) => written[k].status = "report"
    /\ pc = "main" => Len(written) = Len(files)
    /\ pc = "exit" => ~files[Len(files)].xml
    /\ pc = "raise" => DocFails(document)

\* A document failed in its last checker, after Problems had been collected,
\* and the file after it got its report.
C3_Witness ==
    /\ Len(written) = 2
    /\ files[1].doc = DocNoCustomer
    /\ written[1] = Failed
    /\ written[2].status = "report"
    /\ written[2].rows # <<>>

(***************************************************************************)
(* C5.  A checker whose anchor path resolves to an empty sequence returns  *)
(* an empty result list and raises nothing; check_one is never invoked.    *)
(***************************************************************************)
C5_EmptyAnchorYieldsNothing ==
    /\ pc = "loop" /\ trees = <<>> =>
          checker_results = <<>> /\ calls = 0 /\ idx = Len(trees)
    /\ pc = "subclass" /\ subclass > 1 /\ trees = <<>> =>
          checker_results = <<>> /\ calls = 0
    /\ pc = "raise" /\ calls > 0 => trees # <<>>

\* A check over an empty sequence has returned, in a run that follows a run
\* with Problems.
C5_Witness ==
    /\ pc = "subclass"
    /\ subclass > 1
    /\ trees = <<>>
    /\ document = DocNoTakziv
    /\ Len(written) = 1
    /\ written[1].rows # <<>>

(***************************************************************************)
(* C9.  Every run of all_checks yields, for its document, the result of a  *)
(* run on that document alone, whatever ran before it: two runs on the     *)
(* same document agree, a fresh checker starts with an empty accumulator   *)
(* and no header context, the header context a rule sees is that of the    *)
(* document of its own run, and the document is never changed by the run.  *)
(***************************************************************************)
IsolatedRun(doc) ==
    IF DocFails(doc) THEN Failed
    ELSE Report(RowsOfCheckers(Len(Subclasses), doc))

C9_RunsAreIsolated ==
    /\ \A j, k \in 1..Len(written) :
          files[j].doc = files[k].doc => written[j] = written[k]
    /\ \A k \in 1..Len(written) : written[k] = IsolatedRun(files[k].doc)
    /\ pc = "check" => problems = <<>> /\ headers = NoHeaders
    /\ pc = "loop" =>
          /\ headers.sug = document.header.sug
          /\ headers.bitzua = parse_datetime(document.header.bitzua)
    /\ pc \in {"subclass", "check", "loop", "raise"} =>
          document = files[Len(files)].doc

\* The same document has been run twice, with Problems.
C9_Witness ==
    /\ Len(written) = 2
    /\ files[1].doc = DocBad
    /\ files[2].doc = DocBad
    /\ written[2].status = "report"
    /\ Len(written[2].rows) >= 2

(***************************************************************************)
(* C10.  In CheckHafrashotSizeInHafkadotYtd a year-to-date entry of a      *)
(* regulated category with a salary of zero gets no Problem: the division  *)
(* raises, the exception leaves check and all_checks, and the document     *)
(* gets no report, whatever earlier records and checkers had collected.    *)
(* An entry of a health-fund category is skipped and never raises.         *)
(***************************************************************************)
C10_ZeroSalaryAbandonsDocument ==
    /\ pc \in {"loop", "raise"} /\ Cls = "CheckHafrashotSizeInHafkadotYtd" =>
          \* the entries the loop has passed were not of this kind
          /\ \A k \in 1..idx :
                ~(Banded(trees[k].sug) /\ trees[k].sachar = 0)
          \* the rule raises on such an entry and on no other, recording nothing
          /\ (pc = "raise" /\ calls > 0) =>
                /\ Banded(trees[idx + 1].sug)
                /\ trees[idx + 1].sachar = 0
                /\ problems = <<>>
                /\ \A k \in 1..Len(checker_results) : checker_results[k].idx # idx
    /\ \A k \in 1..Len(written) :
          HasZeroSalary(files[k].doc) => written[k] = Failed

\* The division has raised after earlier checkers and earlier records had
\* yielded Problems, and after health-fund entries with a salary of zero.
C10_Witness ==
    /\ pc = "raise"
    /\ Cls = "CheckHafrashotSizeInHafkadotYtd"
    /\ calls > 0
    /\ results # <<>>
    /\ checker_results # <<>>
    /\ Len(written) = 1
    /\ files[1].doc = DocKh
    /\ written[1].status = "report"

(***************************************************************************)
(* The assertion primitives on their own: a rule calls them one after the  *)
(* other on the accumulator out.problems.  aux is the last call (its name, *)
(* its arguments and the length of the accumulator before it) and tree     *)
(* holds the accumulator before it.                                        *)
(***************************************************************************)
\* The largest value handed to a primitive.
MaxValue == 1
\* The number of messages a rule is let accumulate.
MaxProblems == 2

Values == 0..MaxValue

Call(op, a, b, c) == [op |-> op, a |-> a, b |-> b, c |-> c, n |-> Len(out.problems)]
Before == [op |-> "before", ps |-> out.problems]
After(ps) == [done |-> TRUE, problems |-> ps, fault |-> FALSE]

InitAssert ==
    /\ BatchIdle
    /\ tree = [op |-> "before", ps |-> <<>>]
    /\ out = After(<<>>)
    /\ aux = NoAux

CanCall == Len(out.problems) < MaxProblems

Call_assert_ ==
    /\ CanCall
    /\ \E check \in BOOLEAN :
          /\ out' = After(assert_(out.problems, check, Msg("assert_", <<>>)))
          /\ aux' = Call("assert_", IF check THEN 1 ELSE 0, 0, 0)
    /\ tree' = Before
    /\ UNCHANGED batchVars

Call_assert_eq ==
    /\ CanCall
    /\ \E left, right \in Values :
          /\ out' = After(assert_eq(out.problems, left, right, Msg("assert_eq", <<>>)))
          /\ aux' = Call("assert_eq", left, right, 0)
    /\ tree' = Before
    /\ UNCHANGED batchVars

Call_assert_range ==
    /\ CanCall
    /\ \E min, value, max \in Values :
          /\ out' = After(assert_range(out.problems, min, value, max,
                                       Msg("assert_range", <<>>)))
          /\ aux' = Call("assert_range", min, value, max)
    /\ tree' = Before
    /\ UNCHANGED batchVars

Call_assert_gte ==
    /\ CanCall
    /\ \E left, right \in Values :
          /\ out' = After(assert_gte(out.problems, left, right, Msg("assert_gte", <<>>)))
          /\ aux' = Call("assert_gte", left, right, 0)
    /\ tree' = Before
    /\ UNCHANGED batchVars

Call_assert_gt ==
    /\ CanCall
    /\ \E left, right \in Values :
          /\ out' = After(assert_gt(out.problems, left, right, Msg("assert_gt", <<>>)))
          /\ aux' = Call("assert_gt", left, right, 0)
    /\ tree' = Before
    /\ UNCHANGED batchVars

Call_assert_lte ==
    /\ CanCall
    /\ \E left, right \in Values :
          /\ out' = After(assert_lte(out.problems, left, right, Msg("assert_lte", <<>>)))
          /\ aux' = Call("assert_lte", left, right, 0)
    /\ tree' = Before
    /\ UNCHANGED batchVars

Call_assert_lt ==
    /\ CanCall
    /\ \E left, right \in Values :
          /\ out' = After(assert_lt(out.problems, left, right, Msg("assert_lt", <<>>)))
          /\ aux' = Call("assert_lt", left, right, 0)
    /\ tree' = Before
    /\ UNCHANGED batchVars

NextAssert ==
    \/ Call_assert_
    \/ Call_assert_eq
    \/ Call_assert_range
    \/ Call_assert_gte
    \/ Call_assert_gt
    \/ Call_assert_lte
    \/ Call_assert_lt

SpecAssert == InitAssert /\ [][NextAssert]_vars

\* The condition the call of aux asserts is violated.
Violated(call) ==
    CASE call.op = "assert_" -> call.a = 0
      [] call.op = "assert_eq" -> ~(call.a = call.b)
      [] call.op = "assert_range" -> ~(call.a <= call.b /\ call.b <= call.c)
      [] call.op = "assert_gte" -> ~(call.a >= call.b)
      [] call.op = "assert_gt" -> ~(call.a > call.b)
      [] call.op = "assert_lte" -> ~(call.a <= call.b)
      [] call.op = "assert_lt" -> ~(call.a < call.b)

(***************************************************************************)
(* C4.  Every call of assert_, assert_eq, assert_range, assert_gt,         *)
(* assert_gte, assert_lt or assert_lte appends exactly one message, its    *)
(* own, when its condition is violated and nothing otherwise; it never     *)
(* raises and never touches the messages already there, so the rule goes   *)
(* on with its next assertion.                                             *)
(***************************************************************************)
C4_OneProblemPerFailedAssertion ==
    aux.op # "none" =>
        /\ ~out.fault
        /\ SubSeq(out.problems, 1, aux.n) = tree.ps
        /\ Violated(aux) =>
              /\ Len(out.problems) = aux.n + 1
              /\ out.problems[aux.n + 1].tag = aux.op
        /\ ~Violated(aux) => out.problems = tree.ps

\* A range assertion has failed on its upper bound after an earlier assertion
\* of the rule had failed.
C4_Witness ==
    /\ aux.op = "assert_range"
    /\ aux.a <= aux.b
    /\ aux.b > aux.c
    /\ aux.n = 1
    /\ Len(out.problems) = 2

(***************************************************************************)
(* CheckHafkadotYtdTotal.check_one on its own: a budget block whose        *)
(* itemized amounts add up to the reported totals is checked, then one     *)
(* itemized amount is changed and the block is checked again.  aux is the  *)
(* change: the position of the entry (a) and the delta (b).                *)
(***************************************************************************)
\* The most year-to-date entries of a block.
MaxEntries == 2
\* The largest itemized amount.
MaxAmount == 1
\* The largest change of an amount, in either direction.
MaxDelta == 1

YtdEntries ==
    {Entry(sug, schum, 100, 1) : sug \in SugHafrasha, schum \in 0..MaxAmount}

RECURSIVE SeqsUpTo(_, _)
SeqsUpTo(S, n) ==
    IF n = 0 THEN {<<>>}
    ELSE LET shorter == SeqsUpTo(S, n - 1)
         IN  shorter \cup {Append(q, x) : q \in {r \in shorter : Len(r) = n - 1},
                                          x \in S}

\* The itemized amounts of category sug add up to total.
RECURSIVE AddsUpTo(_, _, _, _)
AddsUpTo(entries, n, sug, total) ==
    IF n = 0 THEN total = 0
    ELSE IF entries[n].sug = sug
         THEN AddsUpTo(entries, n - 1, sug, total - entries[n].schum)
         ELSE AddsUpTo(entries, n - 1, sug, total)

Reconciled(t) ==
    /\ AddsUpTo(t.ytd, Len(t.ytd), pitzuim, t.shnatiyot.pitzuim)
    /\ AddsUpTo(t.ytd, Len(t.ytd), tagmulim_oved, t.shnatiyot.oved)
    /\ AddsUpTo(t.ytd, Len(t.ytd), tagmulim_maavid, t.shnatiyot.maavid)

YtdBlocks ==
    {t \in [ytd : SeqsUpTo(YtdEntries, MaxEntries),
            shnatiyot : [pitzuim : 0..(MaxEntries * MaxAmount),
                         oved : 0..(MaxEntries * MaxAmount),
                         maavid : 0..(MaxEntries * MaxAmount)]] : Reconciled(t)}

InitYtdTotal ==
    /\ BatchIdle
    /\ tree \in YtdBlocks
    /\ out = NoOut
    /\ aux = NoAux

Result(r) == [done |-> TRUE, problems |-> r.problems, fault |-> r.fault]

ApplyYtdTotal ==
    /\ ~out.done
    /\ out' = Result(CheckHafkadotYtdTotal_check_one(<<>>, tree))
    /\ UNCHANGED <<tree, aux, batchVars>>

PerturbYtd ==
    /\ out.done
    /\ aux.op = "none"
    /\ \E i \in 1..Len(tree.ytd), delta \in ((-MaxDelta)..MaxDelta) \ {0} :
          /\ tree' = [tree EXCEPT !.ytd[i].schum = @ + delta]
          /\ aux' = [op |-> "perturbed", a |-> i, b |-> delta, c |-> 0, n |-> 0]
    /\ out' = NoOut
    /\ UNCHANGED batchVars

NextYtdTotal ==
    \/ ApplyYtdTotal
    \/ PerturbYtd

SpecYtdTotal == InitYtdTotal /\ [][NextYtdTotal]_vars

\* The message of the total field of a category.
TotalField(sug) ==
    CASE sug = pitzuim -> "ytd_total_pitzuim"
      [] sug = tagmulim_oved -> "ytd_total_oved"
      [] sug = tagmulim_maavid -> "ytd_total_maavid"
      [] OTHER -> "none"

(***************************************************************************)
(* C6 as claimed.  A reconciled block yields zero Problems; after one      *)
(* itemized amount, of any allocation category, is changed by a nonzero    *)
(* delta the rule yields exactly one Problem, the one of the total field   *)
(* of the changed entry's category.                                        *)
(***************************************************************************)
C6_AsClaimed ==
    out.done =>
        /\ ~out.fault
        /\ aux.op = "none" => out.problems = <<>>
        /\ aux.op = "perturbed" =>
              /\ Len(out.problems) = 1
              /\ out.problems[1].tag = TotalField(tree.ytd[aux.a].sug)

(***************************************************************************)
(* C6 as amended.  A reconciled block yields zero Problems; after one      *)
(* itemized amount is changed by a nonzero delta the rule yields exactly   *)
(* one Problem, that of the category's total field, when the entry is of   *)
(* the severance, employee or employer category, and zero Problems when it *)
(* is of a health-fund category (kh_oved, kh_maavid), which no total       *)
(* covers.                                                                 *)
(***************************************************************************)
C6_PerturbedTotalReported ==
    out.done =>
        /\ ~out.fault
        /\ aux.op = "none" => out.problems = <<>>
        /\ (aux.op = "perturbed" /\ Banded(tree.ytd[aux.a].sug)) =>
              /\ Len(out.problems) = 1
              /\ out.problems[1].tag = TotalField(tree.ytd[aux.a].sug)
              /\ out.problems[1].args # <<>>
        /\ (aux.op = "perturbed" /\ ~Banded(tree.ytd[aux.a].sug)) =>
              out.problems = <<>>

\* An employer amount of a block with two employer entries has been changed
\* and the block checked again.
C6_Witness ==
    /\ out.done
    /\ aux.op = "perturbed"
    /\ Len(tree.ytd) = 2
    /\ tree.ytd[1].sug = tagmulim_maavid
    /\ tree.ytd[2].sug = tagmulim_maavid
    /\ Len(out.problems) = 1

(***************************************************************************)
(* CheckHafrashotSize.check_one on its own, on a budget block whose        *)
(* declared percentages are drawn from the limits of the bands and their   *)
(* neighbours.                                                             *)
(***************************************************************************)
\* The most declared percentages of a block.
MaxHafrashot == 5

\* Per category: a percentage on a limit of its band and one just outside.
HafrashaInputs ==
    { Hafrasha(pitzuim, 600), Hafrasha(pitzuim, 833), Hafrasha(pitzuim, 834),
      Hafrasha(tagmulim_oved, 599), Hafrasha(tagmulim_oved, 700),
      Hafrasha(tagmulim_maavid, 650), Hafrasha(tagmulim_maavid, 751),
      Hafrasha(kh_oved, 0), Hafrasha(kh_maavid, 0) }

InitSize ==
    /\ BatchIdle
    /\ tree \in [hafrashot : SeqsUpTo(HafrashaInputs, MaxHafrashot)]
    /\ out = NoOut
    /\ aux = NoAux

ApplySize ==
    /\ ~out.done
    /\ out' = Result(CheckHafrashotSize_check_one(<<>>, tree))
    /\ UNCHANGED <<tree, aux, batchVars>>

NextSize == ApplySize

SpecSize == InitSize /\ [][NextSize]_vars

\* How often a category is declared, and the percentage declared last.
Declarations(t, sug) == {i \in 1..Len(t.hafrashot) : t.hafrashot[i].sug = sug}
InBand(sug, achuz) ==
    \/ sug = pitzuim /\ 600 <= achuz /\ achuz <= 833
    \/ sug = tagmulim_oved /\ 600 <= achuz /\ achuz <= 700
    \/ sug = tagmulim_maavid /\ 650 <= achuz /\ achuz <= 750
DeclaredOnceInBand(t, sug) ==
    /\ Cardinality(Declarations(t, sug)) = 1
    /\ \A i \in Declarations(t, sug) : InBand(sug, t.hafrashot[i].achuz)
\* The Problems that name a category.
ProblemsOf(ps, sug) == {k \in 1..Len(ps) : ps[k].args[1] = sug}

(***************************************************************************)
(* C7 as claimed.  A regulated category gets a Problem exactly when it is  *)
(* missing, declared more than once or declared outside its band; a block  *)
(* that declares each regulated category exactly once and within its band  *)
(* yields zero Problems; a health-fund category is never band-checked or   *)
(* reported missing.                                                       *)
(***************************************************************************)
C7_AsClaimed ==
    out.done =>
        /\ ~out.fault
        /\ \A sug \in {pitzuim, tagmulim_oved, tagmulim_maavid} :
              ProblemsOf(out.problems, sug) # {} <=> ~DeclaredOnceInBand(tree, sug)
        /\ (\A sug \in {pitzuim, tagmulim_oved, tagmulim_maavid} :
               DeclaredOnceInBand(tree, sug)) => out.problems = <<>>
        /\ \A k \in 1..Len(out.problems) :
              out.problems[k].tag \in {"size_missing", "size_range"}
                  => Banded(out.problems[k].args[1])

(***************************************************************************)
(* C7 as amended.  A regulated category gets a Problem exactly when it is  *)
(* missing, declared more than once or declared outside its band; a        *)
(* health-fund category is never band-checked or reported missing, but     *)
(* gets a Problem for every declaration after its first; so a block yields *)
(* zero Problems exactly when it declares each regulated category exactly  *)
(* once and within its band and no health-fund category more than once.    *)
(***************************************************************************)
C7_BandsAndDuplicates ==
    out.done =>
        /\ ~out.fault
        /\ \A sug \in {pitzuim, tagmulim_oved, tagmulim_maavid} :
              ProblemsOf(out.problems, sug) # {} <=> ~DeclaredOnceInBand(tree, sug)
        /\ \A sug \in {kh_oved, kh_maavid} :
              /\ \A k \in ProblemsOf(out.problems, sug) :
                    out.problems[k].tag = "size_twice"
              /\ Cardinality(ProblemsOf(out.problems, sug))
                    = IF Declarations(tree, sug) = {} THEN 0
                      ELSE Cardinality(Declarations(tree, sug)) - 1
        /\ out.problems = <<>> <=>
              /\ \A sug \in {pitzuim, tagmulim_oved, tagmulim_maavid} :
                    DeclaredOnceInBand(tree, sug)
              /\ \A sug \in {kh_oved, kh_maavid} :
                    Cardinality(Declarations(tree, sug)) <= 1
        /\ \A k \in 1..Len(out.problems) :
              out.problems[k].tag \in {"size_missing", "size_range"}
                  => Banded(out.problems[k].args[1])

\* A block with each regulated category once, on a limit of its band, and a
\* health-fund category once has been checked.
C7_Witness ==
    /\ out.done
    /\ Len(tree.hafrashot) = 4
    /\ \A sug \in {pitzuim, tagmulim_oved, tagmulim_maavid} :
          DeclaredOnceInBand(tree, sug)
    /\ Declarations(tree, kh_oved) # {}
    /\ out.problems = <<>>

(***************************************************************************)
(* CheckTotalHafkadaParts.check_one on its own.                            *)
(***************************************************************************)
\* The most last-contribution details of a block.
MaxDetails == 2
\* The largest amount of a detail or a deduction.
MaxSum == 1

\* A deduction as decoded: a number, the nil marker, or a mapping that is not
\* the nil marker (one key that does not end in "nil", or two keys).
Deductions ==
    {Num(n) : n \in 0..MaxSum}
        \cup { NilMarker, Dict({<<"n", "i", "l">>}), Dict({<<"n", "i", "l", "s">>}),
               Dict({<<"i", "l">>}), Dict({NilKey, <<"$">>}) }

PartsBlocks ==
    [achrona : SeqsUpTo({Achrona(total, neto, <<>>) :
                            total \in 0..MaxSum, neto \in 0..MaxSum}, MaxDetails),
     hotzaot : [bituah : Deductions, nihul : Deductions]]

InitParts ==
    /\ BatchIdle
    /\ tree \in PartsBlocks
    /\ out = NoOut
    /\ aux = NoAux

ApplyParts ==
    /\ ~out.done
    /\ out' = Result(CheckTotalHafkadaParts_check_one(<<>>, tree))
    /\ UNCHANGED <<tree, aux, batchVars>>

NextParts == ApplyParts

SpecParts == InitParts /\ [][NextParts]_vars

\* The deduction with the nil marker replaced by 0.
Normalized(e) == IF IsNilMarker(e) THEN 0 ELSE e.val
Subtractable(e) == e.kind = "num" \/ IsNilMarker(e)

(***************************************************************************)
(* C8.  With each of the two deductions replaced by 0 when it is the nil   *)
(* marker (a mapping of one key that ends in "nil") and left as it is      *)
(* otherwise, the rule yields zero Problems when net = gross - insurance   *)
(* premium - management fee and exactly one Problem otherwise, net and     *)
(* gross being those of the block's first last-contribution detail.  A     *)
(* mapping that is not the nil marker is left as it is: it cannot be       *)
(* subtracted, and the rule raises without a Problem.                      *)
(***************************************************************************)
C8_NetGrossReconciliation ==
    (out.done /\ tree.achrona # <<>>) =>
        LET neto == tree.achrona[1].total_achrona
            bruto == tree.achrona[1].total
            b == tree.hotzaot.bituah
            n == tree.hotzaot.nihul
        IN  /\ (Subtractable(b) /\ Subtractable(n)) =>
                  /\ ~out.fault
                  /\ neto = bruto - Normalized(b) - Normalized(n)
                        => out.problems = <<>>
                  /\ neto # bruto - Normalized(b) - Normalized(n)
                        => /\ Len(out.problems) = 1
                           /\ out.problems[1].args
                                 = <<neto, bruto, Normalized(b), Normalized(n)>>
            /\ ~(Subtractable(b) /\ Subtractable(n)) =>
                  out.fault /\ out.problems = <<>>

\* A block of two details, with a nil management fee and a first detail whose
\* net amount does not fit, has been checked.
C8_Witness ==
    /\ out.done
    /\ tree.achrona # <<>>
    /\ tree.hotzaot.nihul = NilMarker
    /\ tree.hotzaot.bituah = Num(1)
    /\ Len(tree.achrona) = 2
    /\ tree.achrona[1].total = 1
    /\ tree.achrona[1].total_achrona = 1
    /\ tree.achrona[2].total_achrona = 0
    /\ Len(out.problems) = 1

====
